---- MODULE Spec2Model ----
(***************************************************************************)
(* Model of the anti-snore backend: the request handlers of app/routers,   *)
(* the Raspberry Pi client, the snoring detector and the two log tables.   *)
(*                                                                         *)
(* Conventions: a confidence c in [0,1] is the integer 100*c (0.75 -> 75); *)
(* an audio duration n/d seconds is the pair <<n, d>>; a user is its id;   *)
(* a Python exception is a record [type, text] with str(e) = text; every   *)
(* request handler runs to completion in one step (one await chain of one  *)
(* asyncio task) and leaves in `last` what it sent to the device and what  *)
(* it returned to the caller.                                              *)
(***************************************************************************)
EXTENDS Integers, Sequences, FiniteSets, TLC

VARIABLES
    snore_logs,            \* table snore_logs, in insertion order
    pump_logs,             \* table pump_logs, in insertion order
    auto_detection_state,  \* module-level dict of routers/auto_detect.py
    detector,              \* the global SnoringDetector instance
    settings,              \* app/config.py settings, fixed at start-up
    database,              \* "up", or "commit_fails" while db.commit() raises
    probe,                 \* the last direct call of a component, with its result
    start_callers,         \* history: ids of the users that have called start
    requests,              \* number of requests handled so far
    last                   \* the request handled last: inputs, device calls, response

vars == <<snore_logs, pump_logs, auto_detection_state, detector, settings,
          database, probe, start_callers, requests, last>>

----------------------------------------------------------------------------
(* Bounds of the exploration *)

MaxRequests == 3

\* the longest table the queries are run on
MaxRows == 3

\* limit and offset given to the list queries (limit defaults to 50)
LimitInputs == {0, 1, 2, 50}
OffsetInputs == {0, 1, 2}

Users == {"u1", "u2"}

\* delay_minutes query parameters tried by callers of /auto-detect/start
DelayInputs == {5, 10}

\* outcomes of one HTTP exchange with the device: a 2xx JSON answer, a
\* non-2xx answer (raise_for_status) or a network failure
NetOutcomes == {"ok", "HTTPStatusError", "ConnectError"}

\* content types of the upload: absent, audio/wav, text/plain
ContentTypes == {<<>>, <<"audio", "wav">>, <<"text", "plain">>}

\* byte lengths of the uploaded audio
AudioSizes == {88200}

\* values drawn by np.random.uniform(0.3, 0.95), in hundredths
MockDraws == {30, 60, 74, 75, 95}

\* values of prediction[0][0] of a loaded model, in hundredths
ModelValues == {0, 50, 74, 75, 100}

\* the hundredths np.random.uniform(0.3, 0.95) can give, and those a model
\* can output, for the direct calls of predict
MockRange == 30 .. 95
ModelRange == 0 .. 100

\* uploads given to predict directly: a decodable WAV file, bytes that
\* soundfile cannot read
AudioKinds == {"wav", "corrupt"}

\* durations given to trigger_pump_sequence directly
DurationInputs == {1, 3, 200}

\* levels sent to /pillow/level
LevelInputs == {-1, 0, 1, 2, 3, 4}

\* JSON bodies of POST /pump/trigger (fields other than force are extra)
TriggerBodies == {[force |-> FALSE], [force |-> TRUE, duration |-> 5]}

----------------------------------------------------------------------------
(* Program constants *)

Null == "<null>"
None == "None"

DefaultDelayMinutes == 5
PumpConfidence == 75
MockThreshold == 60
ModelThreshold == 50
DefaultTriggerDuration == 3
ClientTimeout == 10
InflateSeconds == 50
DeflateSeconds == 30
FullSequenceTimeout == 120
PillowTimeout == 90
SimulatedConfidence == 85
SimulatedDuration == 5
BytesPerSecond == 44100 * 2

HTTP_400_BAD_REQUEST == 400
HTTP_500_INTERNAL_SERVER_ERROR == 500

----------------------------------------------------------------------------
(* Rows of the two tables (app/models.py) and the commit of one row *)

\* timestamp has a server default: 0 stands for "not set by the program"
SnoreLog(user_id, snore_detected, confidence, audio_duration) ==
    [user_id |-> user_id, timestamp |-> 0, snore_detected |-> snore_detected,
     confidence |-> confidence, audio_duration |-> audio_duration]

PumpLog(activated_by, status, error_message) ==
    [activated_by |-> activated_by, timestamp |-> 0, status |-> status,
     error_message |-> error_message]

\* db.add(row); db.commit() on a database that is up: the row is inserted
\* with timestamp now(), later than the timestamps of the rows before it
db_add_commit(table, row) ==
    Append(table, [row EXCEPT !.timestamp = Len(table) + 1])

\* the outcome of db.commit()
db_commit(db) ==
    IF db = "up" THEN [ok |-> TRUE, value |-> "committed"]
    ELSE [ok |-> FALSE,
          exc |-> [type |-> "OperationalError", text |-> "commit failed"]]

----------------------------------------------------------------------------
(* Exceptions and results of calls *)

Exc(type, text) == [type |-> type, text |-> text]

Returned(value) == [ok |-> TRUE, value |-> value]
Raised(exc) == [ok |-> FALSE, exc |-> exc]

\* raise HTTPException(status_code, detail) as seen by the caller
HTTPException(status_code, detail) ==
    [code |-> status_code, body |-> [detail |-> detail]]

\* a handler's return value, sent with the default status 200
JsonResponse(body) == [code |-> 200, body |-> body]

\* main.global_exception_handler: the answer to an exception that leaves a
\* handler and is not an HTTPException
global_exception_handler(conf, exc) ==
    [code |-> HTTP_500_INTERNAL_SERVER_ERROR,
     body |-> [message |-> "Internal server error",
               detail |-> IF conf.DEBUG THEN exc.text
                          ELSE "An error occurred"]]

----------------------------------------------------------------------------
(* RaspberryPiClient (app/raspi_client.py) *)

Timeout(seconds) == [is_number |-> TRUE, seconds |-> seconds]
\* httpx.AsyncClient(timeout=...): the Ellipsis object, not a number
EllipsisTimeout == [is_number |-> FALSE, seconds |-> 0]

DeviceJson == [message |-> "done"]

HttpCall(method, path, json, timeout, net) ==
    [method |-> method, path |-> path, json |-> json, timeout |-> timeout,
     ok |-> (net = "ok")]

\* except httpx.HTTPError as e: raise Exception(f"Failed to communicate ...")
WrappedError(net) ==
    Exc("Exception", "Failed to communicate with Raspberry Pi: " \o net)

\* trigger_pump_on: POST /pump/on, timeout self.timeout
trigger_pump_on(net) ==
    [call |-> HttpCall("POST", "/pump/on", <<>>, Timeout(ClientTimeout), net),
     result |-> IF net = "ok" THEN Returned(DeviceJson)
                ELSE Raised(WrappedError(net))]

\* trigger_pump_off: POST /pump/off, timeout self.timeout
trigger_pump_off(net) ==
    [call |-> HttpCall("POST", "/pump/off", <<>>, Timeout(ClientTimeout), net),
     result |-> IF net = "ok" THEN Returned(DeviceJson)
                ELSE Raised(WrappedError(net))]

\* RaspberryPiClient.get_pump_status: GET /pump/status, timeout self.timeout
client_get_pump_status(net) ==
    [call |-> HttpCall("GET", "/pump/status", <<>>, Timeout(ClientTimeout),
                       net),
     result |-> IF net = "ok" THEN Returned(DeviceJson)
                ELSE Raised(WrappedError(net))]

\* trigger_pump_sequence: POST /pump/trigger, no try/except around it
trigger_pump_sequence(duration, net) ==
    [call |-> HttpCall("POST", "/pump/trigger", <<"duration", duration>>,
                       EllipsisTimeout, net),
     result |-> IF net = "ok" THEN Returned(DeviceJson)
                ELSE Raised(Exc(net, net))]

\* trigger_full_sequence: POST /pump/sequence, timeout 120 s
trigger_full_sequence(net) ==
    [call |-> HttpCall("POST", "/pump/sequence", <<>>,
                       Timeout(FullSequenceTimeout), net),
     result |-> IF net = "ok" THEN Returned(DeviceJson)
                ELSE Raised(WrappedError(net))]

\* RaspberryPiClient.set_pillow_level: POST /pillow/level, timeout 90 s
client_set_pillow_level(level, net) ==
    [call |-> HttpCall("POST", "/pillow/level", <<"level", level>>,
                       Timeout(PillowTimeout), net),
     result |-> IF net = "ok" THEN Returned(DeviceJson)
                ELSE Raised(WrappedError(net))]

----------------------------------------------------------------------------
(* SnoringDetector.predict (app/ml_model.py) *)

Verdict(is_snoring, confidence) ==
    [snore_detected |-> is_snoring, confidence |-> confidence]

\* is_mock or model is None: confidence drawn at random
mock_predict(draw) == Verdict(draw > MockThreshold, draw)

\* a loaded model: its output decides, an exception gives (False, 0.0)
model_predict(out) ==
    IF out.raises THEN Verdict(FALSE, 0)
    ELSE Verdict(out.value > ModelThreshold, out.value)

ModelOutcomes ==
    [raises : {FALSE}, value : ModelValues] \cup {[raises |-> TRUE, value |-> 0]}

\* preprocess_audio: where the model's input comes from. Without the audio
\* libraries, or when the bytes cannot be read, it is np.random.randn
preprocess_audio(audio_libs, audio) ==
    IF ~audio_libs THEN "random"
    ELSE IF audio = "wav" THEN "mel_spectrogram"
    ELSE "random"

\* predict, given the random draw of the mock branch and what the model
\* does with the preprocessed input
predict(d, draw, out) ==
    IF d.is_mock THEN mock_predict(draw) ELSE model_predict(out)

\* the time the device takes for a level (get_pillow_levels)
LevelDuration(level) ==
    CASE level = 0 -> 30
      [] level = 1 -> 25
      [] level = 2 -> 40
      [] level = 3 -> 60

\* the verdicts predict can return for the detector in use
Predictions(d) ==
    IF d.is_mock THEN {mock_predict(draw) : draw \in MockDraws}
    ELSE {model_predict(out) : out \in ModelOutcomes}

----------------------------------------------------------------------------
(* Auto detection (app/routers/auto_detect.py) *)

InitialAutoState ==
    [is_running |-> FALSE, user_id |-> None,
     delay_minutes |-> DefaultDelayMinutes, stop_requested |-> FALSE]

\* variant: a start while running overwrites the record
start_state_overwrite(state, user, delay_minutes) ==
    [is_running |-> TRUE, user_id |-> user,
     delay_minutes |-> delay_minutes, stop_requested |-> FALSE]

\* variant: a start while running stores its delay and nothing else
start_state_delay_only(state, user, delay_minutes) ==
    IF state.is_running THEN [state EXCEPT !.delay_minutes = delay_minutes]
    ELSE [is_running |-> TRUE, user_id |-> user,
          delay_minutes |-> delay_minutes, stop_requested |-> FALSE]

\* the dict after start_auto_detection
start_state(state, user, delay_minutes) ==
    IF state.is_running THEN state
    ELSE [is_running |-> TRUE, user_id |-> user,
          delay_minutes |-> delay_minutes, stop_requested |-> FALSE]

start_response(state, delay_minutes) ==
    IF state.is_running
    THEN JsonResponse([status |-> "error", is_running |-> TRUE,
                       message |-> "Auto detection is already running"])
    ELSE JsonResponse([status |-> "success", is_running |-> TRUE,
                       message |-> "Auto detection started",
                       delay_minutes |-> delay_minutes])

\* variant: stop without the is_running test
stop_state_unguarded(state) ==
    [state EXCEPT !.stop_requested = TRUE, !.is_running = FALSE]

\* the dict after stop_auto_detection
stop_state(state) ==
    IF ~state.is_running THEN state
    ELSE [state EXCEPT !.stop_requested = TRUE, !.is_running = FALSE]

stop_response(state) ==
    IF ~state.is_running
    THEN JsonResponse([status |-> "error", is_running |-> FALSE,
                       message |-> "Auto detection is not running"])
    ELSE JsonResponse([status |-> "success", is_running |-> FALSE,
                       message |-> "Auto detection stopped"])

\* variant: status answers from the initial record
status_response_initial(state) ==
    JsonResponse([status |-> "success",
                  is_running |-> InitialAutoState.is_running,
                  delay_minutes |-> InitialAutoState.delay_minutes,
                  user_id |-> InitialAutoState.user_id])

status_response(state) ==
    JsonResponse([status |-> "success", is_running |-> state.is_running,
                  delay_minutes |-> state.delay_minutes,
                  user_id |-> state.user_id])

----------------------------------------------------------------------------
(* Manual trigger (app/routers/pump.py, app/schemas.py) *)

\* class PumpTriggerRequest(BaseModel): force: bool = False
\* (pydantic keeps the declared fields and ignores the others)
PumpTriggerRequest(body) ==
    [force |-> IF "force" \in DOMAIN body THEN body.force ELSE FALSE]

\* obj.name on a pydantic model
getattr(obj, name) ==
    IF name \in DOMAIN obj THEN Returned(obj[name])
    ELSE Raised(Exc("AttributeError",
                    "'PumpTriggerRequest' object has no attribute '"
                        \o name \o "'"))

\* the body of the try block up to the device call's return:
\* raspi_client.trigger_pump_sequence(duration=request.duration)
trigger_pump_attempt(request, net) ==
    LET duration == getattr(request, "duration") IN
    IF ~duration.ok THEN [calls |-> <<>>, result |-> duration]
    ELSE LET sent == trigger_pump_sequence(duration.value, net) IN
         [calls |-> <<sent.call>>, result |-> sent.result]

\* variant: the except block leaves error_message unset
trigger_pump_log_no_message(pumps, user, result) ==
    IF result.ok
    THEN db_add_commit(pumps, PumpLog(user, "success", Null))
    ELSE db_add_commit(pumps, PumpLog(user, "failed", Null))

\* the PumpLog written by the try block or by the except block
trigger_pump_log(pumps, user, result) ==
    IF result.ok
    THEN db_add_commit(pumps, PumpLog(user, "success", Null))
    ELSE db_add_commit(pumps, PumpLog(user, "failed", result.exc.text))

trigger_pump_response(result) ==
    IF result.ok
    THEN JsonResponse([status |-> "success",
                       message |-> "Pump triggered successfully"])
    ELSE HTTPException(HTTP_500_INTERNAL_SERVER_ERROR,
                       "Failed to trigger pump: " \o result.exc.text)

\* get_pump_status: the device's answer, or the except block's 500
pump_status_response(result) ==
    IF result.ok
    THEN JsonResponse(result.value)
    ELSE HTTPException(HTTP_500_INTERNAL_SERVER_ERROR,
                       "Failed to get pump status: " \o result.exc.text)

----------------------------------------------------------------------------
(* Detection (app/routers/snore.py) *)

\* audio.content_type.startswith('audio/')
startswith_audio(content_type) ==
    IF content_type = <<>>
    THEN Raised(Exc("AttributeError",
                    "'NoneType' object has no attribute 'startswith'"))
    ELSE Returned(content_type[1] = "audio")

\* len(audio_data) / (44100 * 2)
estimate_duration(size) == <<size, BytesPerSecond>>

\* variant: only detections are logged
detect_log_if_detected(snores, user, verdict, audio_duration) ==
    IF verdict.snore_detected
    THEN db_add_commit(snores, SnoreLog(user, verdict.snore_detected,
                                        verdict.confidence, audio_duration))
    ELSE snores

\* the SnoreLog of the detection
detect_log(snores, user, verdict, audio_duration) ==
    db_add_commit(snores, SnoreLog(user, verdict.snore_detected,
                                   verdict.confidence, audio_duration))

\* variant: pump_triggered is set before the device call returns
detect_actuation_flag_first(verdict, net) ==
    IF verdict.snore_detected /\ verdict.confidence >= PumpConfidence
    THEN LET sent == trigger_pump_sequence(DefaultTriggerDuration, net) IN
         [calls |-> <<sent.call>>, pump_triggered |-> TRUE]
    ELSE [calls |-> <<>>, pump_triggered |-> FALSE]

\* if snore_detected and confidence >= 0.75: try the device, swallow errors
detect_actuation(verdict, net) ==
    IF verdict.snore_detected /\ verdict.confidence >= PumpConfidence
    THEN LET sent == trigger_pump_sequence(DefaultTriggerDuration, net) IN
         [calls |-> <<sent.call>>, pump_triggered |-> sent.result.ok]
    ELSE [calls |-> <<>>, pump_triggered |-> FALSE]

\* variant: the device is called whatever db.commit() did
detect_actuate_regardless(commit, verdict, net) ==
    detect_actuation(verdict, net)

\* the device call comes after db.commit() and is not reached when it raises
detect_commit_then_actuate(commit, verdict, net) ==
    IF commit.ok THEN detect_actuation(verdict, net)
    ELSE [calls |-> <<>>, pump_triggered |-> FALSE]

detect_message(verdict, pump_triggered) ==
    IF verdict.snore_detected
    THEN IF pump_triggered THEN "Snoring detected. Pump activated."
         ELSE "Snoring detected"
    ELSE "No snoring detected"

detect_response(verdict, pump_triggered) ==
    JsonResponse([snore_detected |-> verdict.snore_detected,
                  confidence |-> verdict.confidence,
                  message |-> detect_message(verdict, pump_triggered),
                  pump_triggered |-> pump_triggered])

----------------------------------------------------------------------------
(* Simulated detection (app/routers/auto_detect.py) *)

simulate_log(snores, user) ==
    db_add_commit(snores, SnoreLog(user, TRUE, SimulatedConfidence,
                                   <<SimulatedDuration, 1>>))

\* the inner try block: reached after the SnoreLog commit returned
simulate_attempt(commit, net) ==
    IF commit.ok
    THEN LET sent == trigger_full_sequence(net) IN
         [calls |-> <<sent.call>>, result |-> sent.result]
    ELSE [calls |-> <<>>, result |-> commit]

\* variant: the except block writes no PumpLog
simulate_pump_log_success_only(pumps, user, result) ==
    IF result.ok
    THEN db_add_commit(pumps, PumpLog(user, "success", Null))
    ELSE pumps

\* the PumpLog written after the device call, or in except ... as pump_error
simulate_pump_log(pumps, user, result) ==
    IF result.ok
    THEN db_add_commit(pumps, PumpLog(user, "success", Null))
    ELSE db_add_commit(pumps, PumpLog(user, "failed", result.exc.text))

simulate_response(result) ==
    IF result.ok
    THEN JsonResponse([status |-> "success", snore_detected |-> TRUE,
                       confidence |-> SimulatedConfidence,
                       pump_triggered |-> TRUE,
                       pump_response |-> result.value])
    ELSE JsonResponse([status |-> "partial_success", snore_detected |-> TRUE,
                       confidence |-> SimulatedConfidence,
                       pump_triggered |-> FALSE,
                       error |-> result.exc.text])

----------------------------------------------------------------------------
(* Queries (app/routers/snore.py, app/routers/pump.py) *)

\* .filter(column == current_user.id)
filter_by(table, column, user) ==
    SelectSeq(table, LAMBDA row : row[column] = user)

\* the position of the row with the latest timestamp
Latest(rows) ==
    CHOOSE i \in DOMAIN rows :
        \A j \in DOMAIN rows : rows[j].timestamp <= rows[i].timestamp

\* the position of the row with the earliest timestamp
Earliest(rows) ==
    CHOOSE i \in DOMAIN rows :
        \A j \in DOMAIN rows : rows[j].timestamp >= rows[i].timestamp

Without(rows, i) == SubSeq(rows, 1, i - 1) \o SubSeq(rows, i + 1, Len(rows))

\* variant: .order_by(timestamp) without desc()
RECURSIVE order_by_timestamp_asc(_)
order_by_timestamp_asc(rows) ==
    IF rows = <<>> THEN <<>>
    ELSE <<rows[Earliest(rows)]>>
             \o order_by_timestamp_asc(Without(rows, Earliest(rows)))

\* .order_by(timestamp.desc())
RECURSIVE order_by_timestamp_desc(_)
order_by_timestamp_desc(rows) ==
    IF rows = <<>> THEN <<>>
    ELSE <<rows[Latest(rows)]>>
             \o order_by_timestamp_desc(Without(rows, Latest(rows)))

\* .limit(limit).offset(offset).all(), limit >= 0 and offset >= 0
limit_offset(rows, limit, offset) ==
    LET end == IF offset + limit < Len(rows) THEN offset + limit
               ELSE Len(rows)
    IN  SubSeq(rows, offset + 1, end)

\* the list queries of both routers
list_logs(table, column, user, limit, offset) ==
    limit_offset(order_by_timestamp_desc(filter_by(table, column, user)),
                 limit, offset)

\* sum([c[0] for c in avg_confidence]), in hundredths
RECURSIVE sum_confidence(_)
sum_confidence(rows) ==
    IF rows = <<>> THEN 0
    ELSE rows[1].confidence + sum_confidence(Tail(rows))

\* round(num / den, digits), counted in units of the last digit kept: the
\* nearest integer to num / den, either neighbour when the float is half way
round(num, den) ==
    LET q == num \div den
        r == num % den
    IN  IF 2 * r < den THEN {q}
        ELSE IF 2 * r > den THEN {q + 1}
        ELSE {q, q + 1}

\* variant: the mean is taken over all of the user's rows
average_confidence_all_rows(table, user) ==
    LET rows == filter_by(table, "user_id", user)
    IN  IF rows = <<>> THEN {0}
        ELSE round(sum_confidence(rows) * 10, Len(rows))

\* round(avg_conf_value, 3) in thousandths: the mean over the user's rows
\* with snore_detected, 0 when there are none
average_confidence(table, user) ==
    LET rows == SelectSeq(filter_by(table, "user_id", user),
                          LAMBDA row : row.snore_detected)
    IN  IF rows = <<>> THEN {0}
        ELSE round(sum_confidence(rows) * 10, Len(rows))

\* round(snoring_detected / total_logs * 100, 1) in tenths of a percent,
\* 0 when the user has no rows
snoring_percentage(total_logs, snoring_detected) ==
    IF total_logs > 0 THEN round(snoring_detected * 1000, total_logs)
    ELSE {0}

stats_response(table, user, average, percentage) ==
    LET total_logs == Len(filter_by(table, "user_id", user))
        snoring_detected ==
            Len(SelectSeq(filter_by(table, "user_id", user),
                          LAMBDA row : row.snore_detected))
    IN  JsonResponse([total_detections |-> total_logs,
                      snoring_detected_count |-> snoring_detected,
                      no_snoring_count |-> total_logs - snoring_detected,
                      average_confidence |-> average,
                      snoring_percentage |-> percentage])

----------------------------------------------------------------------------
(* Pillow level (app/routers/pillow.py) *)

\* variant: an off-by-one range test
valid_level_upto4(level) == level >= 0 /\ level <= 4

\* request.level in [0, 1, 2, 3]
valid_level(level) == level \in {0, 1, 2, 3}

pillow_response(level, result) ==
    IF result.ok
    THEN JsonResponse([status |-> "success", message |-> result.value.message,
                       level |-> level])
    ELSE HTTPException(HTTP_500_INTERNAL_SERVER_ERROR,
                       "Failed to set pillow level: " \o result.exc.text)

----------------------------------------------------------------------------
(* State after construction *)

Handled(handler, user, request, device_calls, response) ==
    [handler |-> handler, user |-> user, request |-> request,
     device_calls |-> device_calls, response |-> response]

\* class Settings: DEBUG: bool = True
DefaultSettings == [DEBUG |-> TRUE]

NoProbe == [unit |-> "none"]

Init ==
    /\ snore_logs = <<>>
    /\ pump_logs = <<>>
    /\ auto_detection_state = InitialAutoState
    /\ detector \in [is_mock : BOOLEAN]
    /\ settings = DefaultSettings
    /\ database = "up"
    /\ probe = NoProbe
    /\ start_callers = {}
    /\ requests = 0
    /\ last = Handled("none", None, <<>>, <<>>, [code |-> 0])

----------------------------------------------------------------------------
(* Request handlers *)

start_auto_detection ==
    \E user \in Users, delay_minutes \in DelayInputs :
        /\ requests < MaxRequests
        /\ auto_detection_state' =
               start_state(auto_detection_state, user, delay_minutes)
        /\ start_callers' = start_callers \cup {user}
        /\ last' = Handled("start_auto_detection", user,
                           [delay_minutes |-> delay_minutes], <<>>,
                           start_response(auto_detection_state, delay_minutes))
        /\ requests' = requests + 1
        /\ UNCHANGED <<snore_logs, pump_logs, detector, settings, database,
                       probe>>

stop_auto_detection ==
    \E user \in Users :
        /\ requests < MaxRequests
        /\ auto_detection_state' = stop_state(auto_detection_state)
        /\ last' = Handled("stop_auto_detection", user, <<>>, <<>>,
                           stop_response(auto_detection_state))
        /\ requests' = requests + 1
        /\ UNCHANGED <<snore_logs, pump_logs, detector, settings, database,
                       probe, start_callers>>

get_auto_detection_status ==
    \E user \in Users :
        /\ requests < MaxRequests
        /\ last' = Handled("get_auto_detection_status", user, <<>>, <<>>,
                           status_response(auto_detection_state))
        /\ requests' = requests + 1
        /\ UNCHANGED <<snore_logs, pump_logs, auto_detection_state, detector,
                       settings, database, probe, start_callers>>

trigger_pump ==
    \E user \in Users, body \in TriggerBodies, net \in NetOutcomes :
        LET request == PumpTriggerRequest(body)
            attempt == trigger_pump_attempt(request, net)
            commit == db_commit(database)
        IN  /\ requests < MaxRequests
            /\ IF commit.ok
               THEN /\ pump_logs' = trigger_pump_log(pump_logs, user,
                                                     attempt.result)
                    /\ last' = Handled("trigger_pump", user, request,
                                       attempt.calls,
                                       trigger_pump_response(attempt.result))
               ELSE \* db.commit() raises in the try block and again in the
                    \* except block, and the exception leaves the handler
                    /\ UNCHANGED pump_logs
                    /\ last' = Handled("trigger_pump", user, request,
                                       attempt.calls,
                                       global_exception_handler(settings,
                                                                commit.exc))
            /\ requests' = requests + 1
            /\ UNCHANGED <<snore_logs, auto_detection_state, detector,
                           settings, database, probe, start_callers>>

detect_snoring ==
    \E user \in Users, content_type \in ContentTypes, size \in AudioSizes,
       verdict \in Predictions(detector), net \in NetOutcomes :
        LET request == [content_type |-> content_type, size |-> size]
            audio == startswith_audio(content_type)
            commit == db_commit(database)
            actuation == detect_commit_then_actuate(commit, verdict, net)
        IN  /\ requests < MaxRequests
            /\ IF ~audio.ok
               THEN \* except Exception as e
                    /\ last' = Handled("detect_snoring", user, request, <<>>,
                                 HTTPException(HTTP_500_INTERNAL_SERVER_ERROR,
                                     "Error processing audio: "
                                         \o audio.exc.text))
                    /\ UNCHANGED snore_logs
               ELSE IF ~audio.value
               THEN \* except HTTPException: raise
                    /\ last' = Handled("detect_snoring", user, request, <<>>,
                                 HTTPException(HTTP_400_BAD_REQUEST,
                                     "Invalid file type. Please upload an audio file."))
                    /\ UNCHANGED snore_logs
               ELSE IF ~commit.ok
               THEN \* except Exception as e
                    /\ last' = Handled("detect_snoring", user, request,
                                 actuation.calls,
                                 HTTPException(HTTP_500_INTERNAL_SERVER_ERROR,
                                     "Error processing audio: "
                                         \o commit.exc.text))
                    /\ UNCHANGED snore_logs
               ELSE /\ snore_logs' = detect_log(snore_logs, user, verdict,
                                                estimate_duration(size))
                    /\ last' = Handled("detect_snoring", user, request,
                                 actuation.calls,
                                 detect_response(verdict,
                                                 actuation.pump_triggered))
            /\ requests' = requests + 1
            /\ UNCHANGED <<pump_logs, auto_detection_state, detector,
                           settings, database, probe, start_callers>>

simulate_snoring_detection ==
    \E user \in Users, net \in NetOutcomes :
        LET commit == db_commit(database)
            attempt == simulate_attempt(commit, net)
        IN  /\ requests < MaxRequests
            /\ IF commit.ok
               THEN /\ snore_logs' = simulate_log(snore_logs, user)
                    /\ pump_logs' = simulate_pump_log(pump_logs, user,
                                                      attempt.result)
                    /\ last' = Handled("simulate_snoring_detection", user,
                                       <<>>, attempt.calls,
                                       simulate_response(attempt.result))
               ELSE \* the outer except Exception as e
                    /\ UNCHANGED <<snore_logs, pump_logs>>
                    /\ last' = Handled("simulate_snoring_detection", user,
                                       <<>>, attempt.calls,
                                       HTTPException(
                                           HTTP_500_INTERNAL_SERVER_ERROR,
                                           commit.exc.text))
            /\ requests' = requests + 1
            /\ UNCHANGED <<auto_detection_state, detector, settings,
                           database, probe, start_callers>>

set_pillow_level ==
    \E user \in Users, level \in LevelInputs, net \in NetOutcomes :
        LET request == [level |-> level]
            sent == client_set_pillow_level(level, net)
        IN  /\ requests < MaxRequests
            /\ IF ~valid_level(level)
               THEN last' = Handled("set_pillow_level", user, request, <<>>,
                                HTTPException(HTTP_400_BAD_REQUEST,
                                    "Invalid level. Must be 0, 1, 2, or 3"))
               ELSE last' = Handled("set_pillow_level", user, request,
                                <<sent.call>>,
                                pillow_response(level, sent.result))
            /\ requests' = requests + 1
            /\ UNCHANGED <<snore_logs, pump_logs, auto_detection_state,
                           detector, settings, database, probe,
                           start_callers>>

get_pump_status ==
    \E user \in Users, net \in NetOutcomes :
        LET sent == client_get_pump_status(net)
        IN  /\ requests < MaxRequests
            /\ last' = Handled("get_pump_status", user, <<>>, <<sent.call>>,
                               pump_status_response(sent.result))
            /\ requests' = requests + 1
            /\ UNCHANGED <<snore_logs, pump_logs, auto_detection_state,
                           detector, settings, database, probe,
                           start_callers>>

----------------------------------------------------------------------------
(* Direct calls of the detector and of the device client *)

\* what one call of predict draws or gets from the model: the branch not
\* taken draws nothing
PredictRuns(d) ==
    IF d.is_mock
    THEN {[draw |-> draw, out |-> [raises |-> FALSE, value |-> 0]] :
              draw \in MockRange}
    ELSE {[draw |-> 30, out |-> [raises |-> FALSE, value |-> value]] :
              value \in ModelRange}
         \cup {[draw |-> 30, out |-> [raises |-> TRUE, value |-> 0]]}

call_predict ==
    \E audio_libs \in BOOLEAN, audio \in AudioKinds,
       run \in PredictRuns(detector) :
            /\ probe' = [unit |-> "predict", is_mock |-> detector.is_mock,
                         audio_libs |-> audio_libs, audio |-> audio,
                         model_input |-> preprocess_audio(audio_libs, audio),
                         model_raised |-> run.out.raises,
                         result |-> Returned(predict(detector, run.draw,
                                                     run.out))]
            /\ UNCHANGED <<snore_logs, pump_logs, auto_detection_state,
                           detector, settings, database, start_callers,
                           requests, last>>

ClientCalls(net) ==
    {[op |-> "trigger_pump_on", sent |-> trigger_pump_on(net)],
     [op |-> "trigger_pump_off", sent |-> trigger_pump_off(net)],
     [op |-> "get_pump_status", sent |-> client_get_pump_status(net)],
     [op |-> "trigger_full_sequence", sent |-> trigger_full_sequence(net)]}
    \cup {[op |-> "trigger_pump_sequence",
           sent |-> trigger_pump_sequence(duration, net)] :
              duration \in DurationInputs}
    \cup {[op |-> "set_pillow_level",
           sent |-> client_set_pillow_level(level, net)] :
              level \in {0, 1, 2, 3}}

call_client ==
    \E net \in NetOutcomes :
        \E c \in ClientCalls(net) :
            /\ probe' = [unit |-> "client", op |-> c.op, net |-> net,
                         call |-> c.sent.call, result |-> c.sent.result]
            /\ UNCHANGED <<snore_logs, pump_logs, auto_detection_state,
                           detector, settings, database, start_callers,
                           requests, last>>

NextUnits ==
    \/ call_predict
    \/ call_client

SpecUnits == Init /\ [][NextUnits]_vars

----------------------------------------------------------------------------

Next ==
    \/ trigger_pump
    \/ detect_snoring
    \/ simulate_snoring_detection
    \/ set_pillow_level
    \/ start_auto_detection
    \/ stop_auto_detection
    \/ get_auto_detection_status

Spec == Init /\ [][Next]_vars

get_snore_logs ==
    \E user \in Users, limit \in LimitInputs, offset \in OffsetInputs :
        /\ requests < MaxRequests
        /\ last' = Handled("get_snore_logs", user,
                           [limit |-> limit, offset |-> offset], <<>>,
                           JsonResponse(list_logs(snore_logs, "user_id", user,
                                                  limit, offset)))
        /\ requests' = requests + 1
        /\ UNCHANGED <<snore_logs, pump_logs, auto_detection_state, detector,
                       settings, database, probe, start_callers>>

get_pump_logs ==
    \E user \in Users, limit \in LimitInputs, offset \in OffsetInputs :
        /\ requests < MaxRequests
        /\ last' = Handled("get_pump_logs", user,
                           [limit |-> limit, offset |-> offset], <<>>,
                           JsonResponse(list_logs(pump_logs, "activated_by",
                                                  user, limit, offset)))
        /\ requests' = requests + 1
        /\ UNCHANGED <<snore_logs, pump_logs, auto_detection_state, detector,
                       settings, database, probe, start_callers>>

get_snore_stats ==
    \E user \in Users :
        \E average \in average_confidence(snore_logs, user),
           percentage \in snoring_percentage(
               Len(filter_by(snore_logs, "user_id", user)),
               Len(SelectSeq(filter_by(snore_logs, "user_id", user),
                             LAMBDA row : row.snore_detected))) :
            /\ requests < MaxRequests
            /\ last' = Handled("get_snore_stats", user, <<>>, <<>>,
                               stats_response(snore_logs, user, average,
                                              percentage))
            /\ requests' = requests + 1
            /\ UNCHANGED <<snore_logs, pump_logs, auto_detection_state,
                           detector, settings, database, probe,
                           start_callers>>

\* the tables of at most n rows that commits of the given rows build
RECURSIVE Tables(_, _)
Tables(rows, n) ==
    IF n = 0 THEN {<<>>}
    ELSE LET shorter == Tables(rows, n - 1)
         IN  shorter \cup {db_add_commit(table, row) :
                               table \in {t \in shorter : Len(t) = n - 1},
                               row \in rows}

\* rows detect_snoring writes
SnoreRows ==
    {SnoreLog(user, mock_predict(draw).snore_detected,
              mock_predict(draw).confidence, estimate_duration(88200)) :
         user \in Users, draw \in {30, 74, 75}}

\* rows simulate_snoring_detection writes
PumpRows ==
    {PumpLog(user, "success", Null) : user \in Users}
    \cup {PumpLog(user, "failed", WrappedError("ConnectError").text) :
              user \in Users}

\* the queries, run on the tables that earlier requests have left
InitQueries ==
    /\ \/ snore_logs \in Tables(SnoreRows, MaxRows) /\ pump_logs = <<>>
       \/ snore_logs = <<>> /\ pump_logs \in Tables(PumpRows, MaxRows)
    /\ auto_detection_state = InitialAutoState
    /\ detector \in [is_mock : {TRUE}]
    /\ settings = DefaultSettings
    /\ database = "up"
    /\ probe = NoProbe
    /\ start_callers = {}
    /\ requests = 0
    /\ last = Handled("none", None, <<>>, <<>>, [code |-> 0])

NextQueries ==
    \/ get_snore_logs
    \/ get_pump_logs
    \/ get_snore_stats

SpecQueries == InitQueries /\ [][NextQueries]_vars

\* the database server stops accepting commits, and accepts them again
database_fails ==
    /\ database = "up"
    /\ database' = "commit_fails"
    /\ UNCHANGED <<snore_logs, pump_logs, auto_detection_state, detector,
                   settings, probe, start_callers, requests, last>>

database_recovers ==
    /\ database = "commit_fails"
    /\ database' = "up"
    /\ UNCHANGED <<snore_logs, pump_logs, auto_detection_state, detector,
                   settings, probe, start_callers, requests, last>>

\* detection and simulated detection over a database whose commits can fail
NextCommit ==
    \/ detect_snoring
    \/ simulate_snoring_detection
    \/ database_fails
    \/ database_recovers

SpecCommit == Init /\ [][NextCommit]_vars

\* the device-facing handlers, under either value of settings.DEBUG
InitDebug ==
    /\ snore_logs = <<>>
    /\ pump_logs = <<>>
    /\ auto_detection_state = InitialAutoState
    /\ detector \in [is_mock : BOOLEAN]
    /\ settings \in [DEBUG : BOOLEAN]
    /\ database = "up"
    /\ probe = NoProbe
    /\ start_callers = {}
    /\ requests = 0
    /\ last = Handled("none", None, <<>>, <<>>, [code |-> 0])

NextDebug ==
    \/ trigger_pump
    \/ get_pump_status
    \/ set_pillow_level
    \/ simulate_snoring_detection

SpecDebug == InitDebug /\ [][NextDebug]_vars

----------------------------------------------------------------------------
(* Vocabulary of the properties *)

\* this step is one run of the handler h
Step(h) == requests' = requests + 1 /\ last'.handler = h

\* the request l made a device call that raised
DeviceRaised(l) ==
    \E i \in DOMAIN l.device_calls : ~l.device_calls[i].ok

\* the request l made a device call and every call returned normally
DeviceReturned(l) ==
    /\ l.device_calls # <<>>
    /\ \A i \in DOMAIN l.device_calls : l.device_calls[i].ok

\* the number of pump actuations the request l attempted
PumpAttempts(l) ==
    Cardinality({i \in DOMAIN l.device_calls :
                    l.device_calls[i].path \in {"/pump/trigger", "/pump/sequence"}})

\* table' is table with exactly one more row
OneRowAdded(table, table2) ==
    /\ Len(table2) = Len(table) + 1
    /\ SubSeq(table2, 1, Len(table)) = table

LastRow(table) == table[Len(table)]

IsAudioUpload(request) ==
    request.content_type # <<>> /\ request.content_type[1] = "audio"

----------------------------------------------------------------------------
(* Properties *)

\* C1 (as claimed): every manual trigger adds exactly one PumpLog row for
\* the caller; the row is "failed" with an error_message iff the device call
\* raised, and "success" when the device call returned.
C1_Claim ==
    [][Step("trigger_pump") =>
          /\ OneRowAdded(pump_logs, pump_logs')
          /\ LastRow(pump_logs').activated_by = last'.user
          /\ (/\ LastRow(pump_logs').status = "failed"
              /\ LastRow(pump_logs').error_message # Null)
                 <=> DeviceRaised(last')
          /\ DeviceReturned(last') => LastRow(pump_logs').status = "success"
      ]_vars

\* C2 (as claimed): a request that attempts pump actuations adds exactly one
\* PumpLog row per attempt, whichever handler makes the attempt.
C2_Claim ==
    [][(requests' = requests + 1 /\ PumpAttempts(last') > 0) =>
          Len(pump_logs') = Len(pump_logs) + PumpAttempts(last')
      ]_vars

\* C3: a detect call with an audio content type adds exactly one SnoreLog
\* row, owned by the caller, whether the actuation succeeded, failed or was
\* skipped.
C3_DetectWritesOneSnoreLog ==
    [][(Step("detect_snoring") /\ IsAudioUpload(last'.request)) =>
          /\ OneRowAdded(snore_logs, snore_logs')
          /\ LastRow(snore_logs').user_id = last'.user
          /\ last'.response.code = 200
      ]_vars

C3_Witness ==
    /\ last.handler = "detect_snoring"
    /\ IsAudioUpload(last.request)
    /\ DeviceRaised(last)
    /\ Len(snore_logs) = 2
    /\ LastRow(snore_logs).user_id = last.user

\* C4 (as claimed): start(delay) leaves the session Running with
\* delay_minutes = delay, from either state.
C4_Claim ==
    [][Step("start_auto_detection") =>
          /\ auto_detection_state'.is_running
          /\ auto_detection_state'.delay_minutes = last'.request.delay_minutes
      ]_vars

\* C4 (amended): start(delay) from Idle leaves the session Running with
\* delay_minutes = delay and the caller as user_id; a start while Running is
\* answered with status "error" and leaves the record as it was.
C4_StartFromIdleOnly ==
    [][Step("start_auto_detection") =>
          IF auto_detection_state.is_running
          THEN /\ auto_detection_state' = auto_detection_state
               /\ last'.response.body.status = "error"
          ELSE /\ auto_detection_state'.is_running
               /\ auto_detection_state'.delay_minutes
                      = last'.request.delay_minutes
               /\ auto_detection_state'.user_id = last'.user
               /\ last'.response.body.status = "success"
      ]_vars

C4_Witness ==
    /\ last.handler = "start_auto_detection"
    /\ last.response.body.status = "error"
    /\ auto_detection_state.is_running
    /\ auto_detection_state.delay_minutes # last.request.delay_minutes

C6_StopIdempotent ==
    [][Step("stop_auto_detection") =>
          /\ auto_detection_state'.is_running = FALSE
          /\ stop_state(auto_detection_state') = auto_detection_state'
          /\ ~auto_detection_state.is_running
                 => auto_detection_state' = auto_detection_state
      ]_vars

C6_Witness ==
    /\ last.handler = "stop_auto_detection"
    /\ last.response.body.status = "error"
    /\ requests = 3
    /\ auto_detection_state.stop_requested
    /\ ~auto_detection_state.is_running

\* C7 (as claimed): detect calls the device iff the verdict is detected
\* with confidence >= 0.75, and the call is POST /pump/sequence.
C7_Claim ==
    last.handler = "detect_snoring" =>
        IF last.response.code = 200
        THEN /\ last.device_calls # <<>>
                   <=> (/\ last.response.body.snore_detected
                        /\ last.response.body.confidence >= PumpConfidence)
             /\ \A i \in DOMAIN last.device_calls :
                   /\ last.device_calls[i].method = "POST"
                   /\ last.device_calls[i].path = "/pump/sequence"
        ELSE last.device_calls = <<>>

C9_SimulateLogsBoth ==
    [][Step("simulate_snoring_detection") =>
          /\ OneRowAdded(snore_logs, snore_logs')
          /\ LastRow(snore_logs')
                 = [SnoreLog(last'.user, TRUE, SimulatedConfidence,
                             <<SimulatedDuration, 1>>)
                       EXCEPT !.timestamp = Len(snore_logs')]
          /\ OneRowAdded(pump_logs, pump_logs')
          /\ LastRow(pump_logs').activated_by = last'.user
          /\ Len(last'.device_calls) = 1
          /\ last'.device_calls[1].path = "/pump/sequence"
          /\ LastRow(pump_logs').status = "success"
                 <=> last'.device_calls[1].ok
          /\ ~last'.device_calls[1].ok =>
                 /\ last'.response.code = 200
                 /\ last'.response.body.status = "partial_success"
      ]_vars

C9_Witness ==
    /\ last.handler = "simulate_snoring_detection"
    /\ DeviceRaised(last)
    /\ last.response.body.status = "partial_success"
    /\ snore_logs # <<>>
    /\ LastRow(pump_logs).status = "failed"

\* C10: a pillow-level request with level in {0,1,2,3} is forwarded to the
\* device with that level, and any other level is answered 400 without a
\* device call.
C10_PillowLevelValidated ==
    last.handler = "set_pillow_level" =>
        IF last.request.level \in {0, 1, 2, 3}
        THEN /\ Len(last.device_calls) = 1
             /\ last.device_calls[1].path = "/pillow/level"
             /\ last.device_calls[1].json = <<"level", last.request.level>>
             /\ last.response.code # HTTP_400_BAD_REQUEST
        ELSE /\ last.device_calls = <<>>
             /\ last.response.code = HTTP_400_BAD_REQUEST

C10_Witness ==
    /\ last.handler = "set_pillow_level"
    /\ last.request.level = 4
    /\ last.response.code = HTTP_400_BAD_REQUEST
    /\ last.device_calls = <<>>

\* C11 (as claimed): a detect call whose content type is not audio/* or is
\* absent is answered with a 4xx status, writes no SnoreLog, returns no
\* verdict of the detector and makes no device call.
C11_Claim ==
    [][(Step("detect_snoring") /\ ~IsAudioUpload(last'.request)) =>
          /\ last'.response.code >= 400
          /\ last'.response.code <= 499
          /\ snore_logs' = snore_logs
          /\ "snore_detected" \notin DOMAIN last'.response.body
          /\ last'.device_calls = <<>>
      ]_vars

\* C14: every PumpLog row has an activating user, a status among success,
\* failed and error, and an error_message iff the status is not success.
C14_PumpLogWellFormed ==
    \A i \in DOMAIN pump_logs :
        /\ pump_logs[i].activated_by \in Users
        /\ pump_logs[i].status \in {"success", "failed", "error"}
        /\ pump_logs[i].error_message # Null
               <=> pump_logs[i].status # "success"

C14_Witness ==
    /\ \E i \in DOMAIN pump_logs :
           pump_logs[i].status = "success" /\ pump_logs[i].error_message = Null
    /\ \E i \in DOMAIN pump_logs :
           /\ pump_logs[i].status = "failed"
           /\ pump_logs[i].error_message # Null
    /\ last.handler = "trigger_pump"

\* C12 (as claimed): predict never raises, and with a loaded model any
\* internal failure (audio libraries missing, input that cannot be
\* preprocessed, model error) gives exactly (False, 0.0).
C12_Claim ==
    probe.unit = "predict" =>
        /\ probe.result.ok
        /\ (/\ ~probe.is_mock
            /\ \/ ~probe.audio_libs
               \/ probe.audio = "corrupt"
               \/ probe.model_raised)
           => probe.result.value = Verdict(FALSE, 0)

\* C13 (as claimed): each of the six client operations, on a non-2xx answer
\* or a network failure, raises the wrapped communication error that carries
\* the cause.
C13_Claim ==
    (probe.unit = "client" /\ probe.net # "ok") =>
        /\ ~probe.result.ok
        /\ probe.result.exc = WrappedError(probe.net)

\* C17 (as claimed): every operation's timeout is a number that covers the
\* device's actuation time: full sequence >= 120 s (50 s + 30 s), pillow
\* level >= 90 s (longest level 60 s), on/off/status 10 s, and the trigger's
\* timeout is a number not smaller than the requested duration.
C17_Claim ==
    probe.unit = "client" =>
        /\ probe.call.timeout.is_number
        /\ probe.op = "trigger_full_sequence" =>
               /\ probe.call.timeout.seconds >= 120
               /\ probe.call.timeout.seconds >= InflateSeconds + DeflateSeconds
        /\ probe.op = "set_pillow_level" =>
               /\ probe.call.timeout.seconds >= 90
               /\ \A level \in {0, 1, 2, 3} :
                      probe.call.timeout.seconds >= LevelDuration(level)
        /\ probe.op \in {"trigger_pump_on", "trigger_pump_off",
                         "get_pump_status"} =>
               probe.call.timeout.seconds = 10
        /\ probe.op = "trigger_pump_sequence" =>
               probe.call.timeout.seconds >= probe.call.json[2]

\* the texts of the errors the device client raises
DeviceErrorTexts ==
    {WrappedError(net).text : net \in NetOutcomes \ {"ok"}}
    \cup (NetOutcomes \ {"ok"})

\* the texts a response shows to the caller
ResponseTexts(response) ==
    {response.body[k] : k \in DOMAIN response.body \cap {"detail", "error"}}

\* text ends with part, after one of the handlers' prefixes or none
ContainsText(text, part) ==
    \E prefix \in {"", "Failed to trigger pump: ",
                   "Failed to get pump status: ",
                   "Failed to set pillow level: "} :
        text = prefix \o part

\* C16 (as claimed): with DEBUG off, the response to a request whose device
\* call failed (pump trigger, pump status, pillow level, simulate) does not
\* contain the underlying error text.
C16_Claim ==
    (/\ ~settings.DEBUG
     /\ last.handler \in {"trigger_pump", "get_pump_status",
                          "set_pillow_level", "simulate_snoring_detection"}
     /\ DeviceRaised(last))
    => \A text \in ResponseTexts(last.response), e \in DeviceErrorTexts :
           ~ContainsText(text, e)

\* C20: in detect and in simulate-detection the SnoreLog is committed before
\* the device call: a request that called the device, whether the call
\* returned or failed, has added its SnoreLog row, and a request whose commit
\* failed made no device call and added no row.
C20_LogBeforeDevice ==
    [][(Step("detect_snoring") \/ Step("simulate_snoring_detection")) =>
          /\ last'.device_calls # <<>> =>
                 /\ OneRowAdded(snore_logs, snore_logs')
                 /\ LastRow(snore_logs').user_id = last'.user
          /\ ~db_commit(database).ok =>
                 /\ last'.device_calls = <<>>
                 /\ snore_logs' = snore_logs
      ]_vars

\* a simulated detection's device call failed and its rows are stored; later
\* a detection's commit failed and no device call was made
C20_Witness ==
    /\ \E i \in DOMAIN pump_logs : pump_logs[i].status = "failed"
    /\ snore_logs # <<>>
    /\ database = "commit_fails"
    /\ last.handler = "detect_snoring"
    /\ IsAudioUpload(last.request)
    /\ last.response.code = HTTP_500_INTERNAL_SERVER_ERROR
    /\ last.device_calls = <<>>

\* C18 (as claimed): the record is the one left by the request that ran
\* last: after any start its delay and user are those of that start (last
\* write wins), and after any stop it is not running.
C18_Claim ==
    [][/\ Step("start_auto_detection") =>
              /\ auto_detection_state'.delay_minutes
                     = last'.request.delay_minutes
              /\ auto_detection_state'.user_id = last'.user
       /\ Step("stop_auto_detection") => ~auto_detection_state'.is_running
      ]_vars

\* C18 (amended): every start and stop takes effect in one step, and the
\* first start wins: a start on a running session changes no field, so after
\* start(d1) and start(d2) the delay stays that of the start that ran first;
\* an accepted start writes all four fields from its own request; a stop
\* changes only is_running and stop_requested, so user_id and delay_minutes
\* always come from one and the same start.
C18_FirstStartWins ==
    [][/\ Step("start_auto_detection") =>
              IF auto_detection_state.is_running
              THEN auto_detection_state' = auto_detection_state
              ELSE auto_detection_state' =
                       [is_running |-> TRUE, user_id |-> last'.user,
                        delay_minutes |-> last'.request.delay_minutes,
                        stop_requested |-> FALSE]
       /\ Step("stop_auto_detection") =>
              /\ ~auto_detection_state'.is_running
              /\ auto_detection_state'.user_id = auto_detection_state.user_id
              /\ auto_detection_state'.delay_minutes
                     = auto_detection_state.delay_minutes
              /\ auto_detection_state.is_running
                     => auto_detection_state'.stop_requested
      ]_vars

\* a second start by another user with another delay has run, and the record
\* still holds the first start's user and delay
C18_Witness ==
    /\ last.handler = "start_auto_detection"
    /\ auto_detection_state.is_running
    /\ auto_detection_state.user_id # last.user
    /\ auto_detection_state.delay_minutes # last.request.delay_minutes
    /\ start_callers = Users

\* the rows of the calling user that the last request's statistics are about
StatRows == filter_by(snore_logs, "user_id", last.user)
StatDetected == SelectSeq(StatRows, LAMBDA row : row.snore_detected)

\* C15 (as claimed): stats never fail; with no rows average_confidence and
\* snoring_percentage are 0, with no detected row average_confidence is 0,
\* otherwise average_confidence is the mean confidence of the detected rows
\* and snoring_percentage is detected / total * 100.
C15_Claim ==
    last.handler = "get_snore_stats" =>
        /\ last.response.code = 200
        /\ StatRows = <<>> =>
               /\ last.response.body.average_confidence = 0
               /\ last.response.body.snoring_percentage = 0
        /\ StatDetected = <<>> => last.response.body.average_confidence = 0
        /\ StatDetected # <<>> =>
               last.response.body.average_confidence * Len(StatDetected)
                   = sum_confidence(StatDetected) * 10
        /\ StatRows # <<>> =>
               last.response.body.snoring_percentage * Len(StatRows)
                   = Len(StatDetected) * 1000

\* C15 (amended): as claimed, except that average_confidence is the mean
\* rounded to three decimals (within half a thousandth of it) and
\* snoring_percentage is rounded to one decimal (within 0.05 of it); the
\* counts are those of the caller's rows.
C15_StatsRounded ==
    last.handler = "get_snore_stats" =>
        LET body == last.response.body
            avg_error == body.average_confidence * Len(StatDetected)
                             - sum_confidence(StatDetected) * 10
            pct_error == body.snoring_percentage * Len(StatRows)
                             - Len(StatDetected) * 1000
        IN  /\ last.response.code = 200
            /\ body.total_detections = Len(StatRows)
            /\ body.snoring_detected_count = Len(StatDetected)
            /\ body.no_snoring_count = Len(StatRows) - Len(StatDetected)
            /\ StatRows = <<>> =>
                   /\ body.average_confidence = 0
                   /\ body.snoring_percentage = 0
            /\ StatDetected = <<>> => body.average_confidence = 0
            /\ StatDetected # <<>> =>
                   /\ 2 * avg_error <= Len(StatDetected)
                   /\ 2 * avg_error >= 0 - Len(StatDetected)
            /\ StatRows # <<>> =>
                   /\ 2 * pct_error <= Len(StatRows)
                   /\ 2 * pct_error >= 0 - Len(StatRows)

\* one of the caller's three rows is a detection: 33.3 percent, and the
\* average is that row's confidence although the other rows have their own
C15_Witness ==
    /\ last.handler = "get_snore_stats"
    /\ Len(StatRows) = 3
    /\ Len(StatDetected) = 1
    /\ last.response.body.snoring_percentage = 333
    /\ last.response.body.average_confidence = 740

\* the table and the owner column the last list query read
ListTable == IF last.handler = "get_snore_logs" THEN snore_logs ELSE pump_logs
ListColumn == IF last.handler = "get_snore_logs" THEN "user_id"
              ELSE "activated_by"
ListOwned ==
    {ListTable[i] : i \in {j \in DOMAIN ListTable :
                              ListTable[j][ListColumn] = last.user}}

\* C19: a list query returns only rows of the caller, latest first, and the
\* row at place i of the answer is the one at position offset + i - 1
\* (counted from 0) of the caller's rows in descending timestamp order; the
\* answer has limit rows, or as many as are left after offset. Stated for
\* limit >= 0 and offset >= 0.
C19_ListPaginated ==
    last.handler \in {"get_snore_logs", "get_pump_logs"} =>
        LET out == last.response.body
            limit == last.request.limit
            offset == last.request.offset
            left == IF Cardinality(ListOwned) > offset
                    THEN Cardinality(ListOwned) - offset ELSE 0
        IN  /\ last.response.code = 200
            /\ \A i \in DOMAIN out : out[i] \in ListOwned
            /\ \A i, j \in DOMAIN out :
                   i < j => out[i].timestamp > out[j].timestamp
            /\ Len(out) = IF limit < left THEN limit ELSE left
            /\ \A i \in DOMAIN out :
                   Cardinality({row \in ListOwned :
                                   row.timestamp > out[i].timestamp})
                       = offset + i - 1

\* the second page of one row of a user with three pump rows stored
C19_Witness ==
    /\ last.handler = "get_pump_logs"
    /\ last.request = [limit |-> 1, offset |-> 1]
    /\ Cardinality(ListOwned) = 3
    /\ Len(last.response.body) = 1
    /\ last.response.body[1].timestamp = 2

====
